---- MODULE Spec2Model ----
(***************************************************************************)
(* A model of the crit-bit map of src/src/lib.rs: the enum CritBit<K,V>,   *)
(* its operations len, find, contains_key, clear, find_mut, pop and swap, *)
(* and the bit arithmetic they rest on (bit_at, ^, leading_zeros on a      *)
(* fixed-width unsigned key).  Spec takes swap, pop and clear as whole     *)
(* calls, CallSpec adds the calls of find, contains_key and find_mut,      *)
(* StepSpec takes pop step by step beside a reader, BitSpec is bit_at      *)
(* alone.                                                                  *)
(***************************************************************************)
EXTENDS Integers, Sequences, FiniteSets, TLC

\* Width of the key type K in bits (the tests use u8; the code is generic).
Width == 2
\* The keys the calls are made with are 0..MaxKey, keys of Width bits.
MaxKey == 3
\* Values are 1..MaxVal.
MaxVal == 2

Keys == 0 .. MaxKey
Vals == 1 .. MaxVal

\* Option<V>
None == << >>
Some(v) == << v >>

\* enum CritBit<K,V> { Leaf(K,V), Internal((Box,Box),K), Empty }
Empty == [tag |-> "Empty"]
Leaf(k, v) == [tag |-> "Leaf", k |-> k, v |-> v]
Internal(left, right, crit) ==
    [tag |-> "Internal", left |-> left, right |-> right, crit |-> crit]

-----------------------------------------------------------------------------
\* Bit arithmetic of the unsigned Width-bit key type K.  Each operation is
\* computed bit by bit once, over all of K, and looked up afterwards.

KeyType == 0 .. ((2 ^ Width) - 1)

RECURSIVE XorN(_, _, _)
XorN(a, b, n) ==
    IF n = 0 THEN 0
    ELSE (((a % 2) + (b % 2)) % 2) + (2 * XorN(a \div 2, b \div 2, n - 1))

XorTable == [a \in KeyType |-> [b \in KeyType |-> XorN(a, b, Width)]]

\* a ^ b
BitXor(a, b) == XorTable[a][b]

RECURSIVE AndN(_, _, _)
AndN(a, b, n) ==
    IF n = 0 THEN 0
    ELSE ((a % 2) * (b % 2)) + (2 * AndN(a \div 2, b \div 2, n - 1))

\* The operations of bit_at, for a type T of w bits.

\* !a
BitNot(w, a) == ((2 ^ w) - 1) - a

\* a << n, the bits shifted out of the type's width are lost
Shl(w, a, n) == (a * (2 ^ n)) % (2 ^ w)

\* a.leading_zeros(): the number of zero bits above the highest set bit,
\* w for 0
Lz(w, a) == Cardinality({j \in 1 .. w : a < 2 ^ (w - j)})

\* bit_at testing position pos counted from the least significant bit
bit_at_lsb(w, value, pos) == ((value \div (2 ^ pos)) % 2) = 1

\* bit_at for T of w bits:
\* (*value << *pos).leading_zeros() == ( *value & !*value )
bit_at_T(w, value, pos) ==
    Lz(w, Shl(w, value, pos)) = AndN(value, BitNot(w, value), w)

LzTable == [a \in KeyType |-> Lz(Width, a)]

\* leading_zeros on K
leading_zeros(a) == LzTable[a]

BitAtTable ==
    [value \in KeyType |-> [pos \in 0 .. Width |-> bit_at_T(Width, value, pos)]]

\* bit_at on K
bit_at(value, pos) == BitAtTable[value][pos]

-----------------------------------------------------------------------------
\* Read-only operations.

\* len counting the Internal nodes as well
RECURSIVE len_nodes(_)
len_nodes(self) ==
    CASE self.tag = "Empty" -> 0
      [] self.tag = "Leaf" -> 1
      [] self.tag = "Internal" ->
            1 + len_nodes(self.left) + len_nodes(self.right)

RECURSIVE len(_)
len(self) ==
    CASE self.tag = "Empty" -> 0
      [] self.tag = "Leaf" -> 1
      [] self.tag = "Internal" -> len(self.left) + len(self.right)

\* find without the guard *k == *key of line 29
RECURSIVE find_nokey(_, _)
find_nokey(self, key) ==
    CASE self.tag = "Leaf" -> Some(self.v)
      [] self.tag = "Internal" ->
            IF ~ bit_at(key, self.crit) THEN find_nokey(self.left, key)
            ELSE find_nokey(self.right, key)
      [] OTHER -> None

\* find with the guards of its two Internal arms exchanged
RECURSIVE find_flipped(_, _)
find_flipped(self, key) ==
    CASE self.tag = "Leaf" /\ self.k = key -> Some(self.v)
      [] self.tag = "Internal" /\ bit_at(key, self.crit) ->
            find_flipped(self.left, key)
      [] self.tag = "Internal" /\ ~ bit_at(key, self.crit) ->
            find_flipped(self.right, key)
      [] OTHER -> None

RECURSIVE find(_, _)
find(self, key) ==
    CASE self.tag = "Leaf" /\ self.k = key -> Some(self.v)
      [] self.tag = "Internal" /\ ~ bit_at(key, self.crit) ->
            find(self.left, key)
      [] self.tag = "Internal" /\ bit_at(key, self.crit) ->
            find(self.right, key)
      [] OTHER -> None

\* contains_key with the two arms of its match exchanged
contains_key_swapped(self, key) == find(self, key) = None

contains_key(self, key) == find(self, key) # None

\* find_mut.  The reference it returns is the place of the value in the tree:
\* the children taken from the root down to the Leaf, 0 for children.0 and 1
\* for children.1.

\* find_mut without the guard *k == *key of line 56
RECURSIVE find_mut_nokey(_, _)
find_mut_nokey(self, key) ==
    CASE self.tag = "Leaf" -> Some(<< >>)
      [] self.tag = "Internal" /\ ~ bit_at(key, self.crit) ->
            LET r == find_mut_nokey(self.left, key)
            IN  IF r = None THEN None ELSE Some(<< 0 >> \o r[1])
      [] self.tag = "Internal" /\ bit_at(key, self.crit) ->
            LET r == find_mut_nokey(self.right, key)
            IN  IF r = None THEN None ELSE Some(<< 1 >> \o r[1])
      [] OTHER -> None

RECURSIVE find_mut(_, _)
find_mut(self, key) ==
    CASE self.tag = "Leaf" /\ self.k = key -> Some(<< >>)
      [] self.tag = "Internal" /\ ~ bit_at(key, self.crit) ->
            LET r == find_mut(self.left, key)
            IN  IF r = None THEN None ELSE Some(<< 0 >> \o r[1])
      [] self.tag = "Internal" /\ bit_at(key, self.crit) ->
            LET r == find_mut(self.right, key)
            IN  IF r = None THEN None ELSE Some(<< 1 >> \o r[1])
      [] OTHER -> None

\* *y, for the reference y at place
RECURSIVE Deref(_, _)
Deref(self, place) ==
    IF place = << >> THEN self.v
    ELSE IF Head(place) = 0 THEN Deref(self.left, Tail(place))
    ELSE Deref(self.right, Tail(place))

\* *y = value, for the reference y at place
RECURSIVE Store(_, _, _)
Store(self, place, value) ==
    IF place = << >> THEN [self EXCEPT !.v = value]
    ELSE IF Head(place) = 0
    THEN [self EXCEPT !.left = Store(self.left, Tail(place), value)]
    ELSE [self EXCEPT !.right = Store(self.right, Tail(place), value)]

\* clear that writes nothing
clear_keep(self) == self

\* *self = Empty
clear(self) == Empty

-----------------------------------------------------------------------------
\* swap (insert): the Leaf arm, lines 103-120.  ub is the value the shift
\* key << crit yields when crit = Width (k == key, so k ^ key is 0): the
\* shift amount is then out of range and its result is unspecified; the arm
\* reads bit only when k # key.

\* the arm returning None when it overwrites
swap_leaf_noret(k, v, key, value, ub) ==
    LET crit == leading_zeros(BitXor(k, key))
        bit == IF crit < Width THEN bit_at(key, crit) ELSE ub
    IN  IF k = key THEN
            [self |-> Leaf(key, value), ret |-> None]
        ELSE IF bit THEN
            [self |-> Internal(Leaf(k, v), Leaf(key, value), crit),
             ret |-> None]
        ELSE
            [self |-> Internal(Leaf(key, value), Leaf(k, v), crit),
             ret |-> None]

\* the arm with the two children on the wrong sides
swap_leaf_flipped(k, v, key, value, ub) ==
    LET crit == leading_zeros(BitXor(k, key))
        bit == IF crit < Width THEN bit_at(key, crit) ELSE ub
    IN  IF k = key THEN
            [self |-> Leaf(key, value), ret |-> Some(v)]
        ELSE IF bit THEN
            [self |-> Internal(Leaf(key, value), Leaf(k, v), crit),
             ret |-> None]
        ELSE
            [self |-> Internal(Leaf(k, v), Leaf(key, value), crit),
             ret |-> None]

\* the arm without the test k == key: it splits on an equal key too
swap_leaf_dup(k, v, key, value, ub) ==
    LET crit == leading_zeros(BitXor(k, key))
        bit == IF crit < Width THEN bit_at(key, crit) ELSE ub
    IN  IF bit THEN
            [self |-> Internal(Leaf(k, v), Leaf(key, value), crit),
             ret |-> None]
        ELSE
            [self |-> Internal(Leaf(key, value), Leaf(k, v), crit),
             ret |-> None]

\* the arm with k | key in the place of k ^ key
swap_leaf_or(k, v, key, value, ub) ==
    LET crit == leading_zeros((k + key) - AndN(k, key, Width))
        bit == IF crit < Width THEN bit_at(key, crit) ELSE ub
    IN  IF k = key THEN
            [self |-> Leaf(key, value), ret |-> Some(v)]
        ELSE IF bit THEN
            [self |-> Internal(Leaf(k, v), Leaf(key, value), crit),
             ret |-> None]
        ELSE
            [self |-> Internal(Leaf(key, value), Leaf(k, v), crit),
             ret |-> None]

\* the arm taking the critical bit from key alone
swap_leaf_critkey(k, v, key, value, ub) ==
    LET crit == leading_zeros(key)
        bit == IF crit < Width THEN bit_at(key, crit) ELSE ub
    IN  IF k = key THEN
            [self |-> Leaf(key, value), ret |-> Some(v)]
        ELSE IF bit THEN
            [self |-> Internal(Leaf(k, v), Leaf(key, value), crit),
             ret |-> None]
        ELSE
            [self |-> Internal(Leaf(key, value), Leaf(k, v), crit),
             ret |-> None]

\* the arm counting bit positions from 1
swap_leaf_lzplus(k, v, key, value, ub) ==
    LET crit == leading_zeros(BitXor(k, key)) + 1
        bit == IF crit < Width THEN bit_at(key, crit) ELSE ub
    IN  IF k = key THEN
            [self |-> Leaf(key, value), ret |-> Some(v)]
        ELSE IF bit THEN
            [self |-> Internal(Leaf(k, v), Leaf(key, value), crit),
             ret |-> None]
        ELSE
            [self |-> Internal(Leaf(key, value), Leaf(k, v), crit),
             ret |-> None]

swap_leaf(k, v, key, value, ub) ==
    LET crit == leading_zeros(BitXor(k, key))
        bit == IF crit < Width THEN bit_at(key, crit) ELSE ub
    IN  IF k = key THEN
            [self |-> Leaf(key, value), ret |-> Some(v)]
        ELSE IF bit THEN
            [self |-> Internal(Leaf(k, v), Leaf(key, value), crit),
             ret |-> None]
        ELSE
            [self |-> Internal(Leaf(key, value), Leaf(k, v), crit),
             ret |-> None]

RECURSIVE swap(_, _, _, _)
swap(self, key, value, ub) ==
    CASE self.tag = "Leaf" -> swap_leaf(self.k, self.v, key, value, ub)
      [] self.tag = "Internal" /\ ~ bit_at(key, self.crit) ->
            LET sub == swap(self.left, key, value, ub)
            IN  [self |-> [self EXCEPT !.left = sub.self], ret |-> sub.ret]
      [] self.tag = "Internal" /\ bit_at(key, self.crit) ->
            LET sub == swap(self.right, key, value, ub)
            IN  [self |-> [self EXCEPT !.right = sub.self], ret |-> sub.ret]
      [] self.tag = "Empty" -> [self |-> Leaf(key, value), ret |-> None]

-----------------------------------------------------------------------------
\* pop (remove).  self is Empty from line 67 on; each arm of the second match
\* says what is written back to it.

\* the Leaf arm returning the value and writing the Leaf back
pop_leaf_keep(k, v, key) ==
    IF k = key THEN [self |-> Leaf(k, v), ret |-> Some(v)]
    ELSE [self |-> Leaf(k, v), ret |-> None]

\* the Leaf arm without the write of line 81
pop_leaf_norestore(k, v, key) ==
    IF k = key THEN [self |-> Empty, ret |-> Some(v)]
    ELSE [self |-> Empty, ret |-> None]

\* lines 77-84: val is Leaf(k, v)
pop_leaf(k, v, key) ==
    IF k = key THEN [self |-> Empty, ret |-> Some(v)]
    ELSE [self |-> Leaf(k, v), ret |-> None]

\* the second match without the two collapsing arms of lines 85-92
pop_restore_nocollapse(val, ret) == [self |-> val, ret |-> ret]

\* the second match with the surviving children mixed up
pop_restore_wrongkid(val, ret) ==
    CASE val.tag = "Internal" /\ val.left = Empty ->
            [self |-> val.left, ret |-> ret]
      [] val.tag = "Internal" /\ val.right = Empty ->
            [self |-> val.right, ret |-> ret]
      [] OTHER -> [self |-> val, ret |-> ret]

\* the second match without the arm of lines 89-92
pop_restore_leftonly(val, ret) ==
    CASE val.tag = "Internal" /\ val.left = Empty ->
            [self |-> val.right, ret |-> ret]
      [] OTHER -> [self |-> val, ret |-> ret]

\* lines 85-96: val is Internal (its chosen child already popped) or Empty
pop_restore(val, ret) ==
    CASE val.tag = "Internal" /\ val.left = Empty ->
            [self |-> val.right, ret |-> ret]
      [] val.tag = "Internal" /\ val.right = Empty ->
            [self |-> val.left, ret |-> ret]
      [] OTHER -> [self |-> val, ret |-> ret]

RECURSIVE pop(_, _)
pop(self, key) ==
    CASE self.tag = "Internal" /\ ~ bit_at(key, self.crit) ->
            LET sub == pop(self.left, key)
            IN  pop_restore([self EXCEPT !.left = sub.self], sub.ret)
      [] self.tag = "Internal" /\ bit_at(key, self.crit) ->
            LET sub == pop(self.right, key)
            IN  pop_restore([self EXCEPT !.right = sub.self], sub.ret)
      [] self.tag = "Leaf" -> pop_leaf(self.k, self.v, key)
      [] OTHER -> pop_restore(self, None)

-----------------------------------------------------------------------------
\* The map as a state machine: one action per mutating call.

VARIABLES
    tree,     \* the CritBit value the caller owns
    before,   \* tree as it was when the last call was made
    last,     \* the last call: its name, arguments and return value
    ref       \* a reference key -> Option<V> map, run side by side

vars == << tree, before, last, ref >>

Stored == {k \in Keys : ref[k] # None}

Init ==
    /\ tree = Empty
    /\ before = Empty
    /\ last = [op |-> "new", key |-> 0, value |-> 0, ret |-> None]
    /\ ref = [k \in Keys |-> None]

Swap(key, value, ub) ==
    /\ LET r == swap(tree, key, value, ub)
       IN  /\ tree' = r.self
           /\ last' = [op |-> "swap", key |-> key, value |-> value,
                       ret |-> r.ret]
    /\ before' = tree
    /\ ref' = [ref EXCEPT ![key] = Some(value)]

Pop(key) ==
    /\ LET r == pop(tree, key)
       IN  /\ tree' = r.self
           /\ last' = [op |-> "pop", key |-> key, value |-> 0, ret |-> r.ret]
    /\ before' = tree
    /\ ref' = [ref EXCEPT ![key] = None]

Clear ==
    /\ tree' = clear(tree)
    /\ last' = [op |-> "clear", key |-> 0, value |-> 0, ret |-> None]
    /\ before' = tree
    /\ ref' = [k \in Keys |-> None]

\* The outcomes of the out-of-range shift of line 105, where it happens.
ShiftOutcomes(key) == IF key \in Stored THEN BOOLEAN ELSE {FALSE}

Next ==
    \/ \E key \in Keys, value \in Vals :
          \E ub \in ShiftOutcomes(key) : Swap(key, value, ub)
    \/ \E key \in Keys : Pop(key)
    \/ Clear

Spec == Init /\ [][Next]_vars

-----------------------------------------------------------------------------
\* What a tree holds, read off its nodes without any bit test.

\* the Leaf nodes from left to right, each as << key, value >>
RECURSIVE leaves(_)
leaves(t) ==
    CASE t.tag = "Leaf" -> << << t.k, t.v >> >>
      [] t.tag = "Internal" -> leaves(t.left) \o leaves(t.right)
      [] OTHER -> << >>

entries(t) == {leaves(t)[i] : i \in 1 .. Len(leaves(t))}

keysOf(t) == {e[1] : e \in entries(t)}

\* the bit of key k at position c, position 0 the most significant
BitIs(k, c) == ((k \div (2 ^ ((Width - 1) - c))) % 2) = 1

\* no Empty anywhere in t
RECURSIVE Populated(_)
Populated(t) ==
    CASE t.tag = "Leaf" -> TRUE
      [] t.tag = "Internal" -> Populated(t.left) /\ Populated(t.right)
      [] OTHER -> FALSE

\* the Internal nodes of t, each before the ones below it
RECURSIVE internals(_)
internals(t) ==
    IF t.tag = "Internal"
    THEN << t >> \o internals(t.left) \o internals(t.right)
    ELSE << >>

\* the critical bits of the Internal nodes of t
RECURSIVE crits(_)
crits(t) ==
    IF t.tag = "Internal" THEN {t.crit} \cup crits(t.left) \cup crits(t.right)
    ELSE {}

-----------------------------------------------------------------------------
\* C1: after any sequence of swap, pop and clear calls from the empty map,
\* find(k) agrees for every key k with the reference map run side by side:
\* the value of the latest swap(k, v) not since undone by pop(k) or clear,
\* and None when there is none.
C1_FindAgreesWithReference == \A k \in Keys : find(tree, k) = ref[k]

\* a key overwritten with a new value, another key stored, a third one not
C1_Witness ==
    /\ last.op = "swap" /\ last.ret # None /\ last.ret # Some(last.value)
    /\ Cardinality(Stored) >= 2
    /\ Stored # Keys

\* C2: len() is the number of distinct keys stored (inserted and not since
\* removed or cleared), and that is the number of Leaf nodes of the tree.
C2_LenCountsStoredKeys ==
    /\ len(tree) = Cardinality(Stored)
    /\ len(tree) = Len(leaves(tree))

\* a tree of three entries left by a removal
C2_Witness == last.op = "pop" /\ last.ret # None /\ Cardinality(Stored) = 3

\* C3: swap(k, v) returns the previously stored value exactly when k was
\* stored and None otherwise; when k was stored, len() is unchanged and
\* find(k) afterwards is v.
C3_SwapReturnsPrevious ==
    last.op = "swap" =>
        /\ (last.ret # None) <=> (last.key \in keysOf(before))
        /\ last.key \in keysOf(before) =>
              /\ \E e \in entries(before) :
                    e[1] = last.key /\ last.ret = Some(e[2])
              /\ len(tree) = len(before)
              /\ find(tree, last.key) = Some(last.value)

\* an overwrite below an Internal node that changes the value
C3_Witness ==
    /\ last.op = "swap" /\ last.key \in keysOf(before)
    /\ before.tag = "Internal"
    /\ find(before, last.key) # Some(last.value)

\* C4: pop(k) on a stored key returns its value, lowers len() by one, leaves
\* find(k) None and contains_key(k) false, and changes find(j) for no other
\* key j: what is left are the entries without k's.
C4_PopRemovesOnlyKey ==
    (last.op = "pop" /\ last.key \in keysOf(before)) =>
        /\ \E e \in entries(before) :
              /\ e[1] = last.key /\ last.ret = Some(e[2])
              /\ entries(tree) = entries(before) \ {e}
        /\ len(tree) = len(before) - 1
        /\ find(tree, last.key) = None
        /\ ~ contains_key(tree, last.key)
        /\ \A j \in Keys \ {last.key} : find(tree, j) = find(before, j)

\* a stored key removed from a tree of at least three entries
C4_Witness ==
    /\ last.op = "pop" /\ last.key \in keysOf(before)
    /\ len(before) >= 3

\* C5: pop(k) on a key that is not stored (the empty map included) returns
\* None and leaves the tree exactly as it was, node for node.
C5_PopAbsentChangesNothing ==
    (last.op = "pop" /\ last.key \notin keysOf(before)) =>
        /\ last.ret = None
        /\ tree = before

\* an absent key popped from a tree with nested Internal nodes
C5_Witness ==
    /\ last.op = "pop" /\ last.key \notin keysOf(before)
    /\ before.tag = "Internal"
    /\ before.left.tag = "Internal" \/ before.right.tag = "Internal"

\* C6: for every Internal node with critical bit c, every leaf under its left
\* child has bit 0 at position c and every leaf under its right child has
\* bit 1 there, positions counted from the most significant bit.
SplitsAtCrit(n) ==
    /\ n.crit \in 0 .. (Width - 1)
    /\ \A k \in keysOf(n.left) : ~ BitIs(k, n.crit)
    /\ \A k \in keysOf(n.right) : BitIs(k, n.crit)

C6_ChildrenSplitAtCriticalBit ==
    \A i \in 1 .. Len(internals(tree)) : SplitsAtCrit(internals(tree)[i])

\* a tree of nested Internal nodes left by a removal
C6_Witness ==
    /\ last.op = "pop" /\ last.ret # None
    /\ tree.tag = "Internal"
    /\ tree.left.tag = "Internal" \/ tree.right.tag = "Internal"

\* C7: when swap, pop or clear has returned, no child of an Internal node is
\* Empty; Empty is the whole map exactly when nothing is stored, so removing
\* the last entry leaves the root Empty.
C7_EmptyOnlyAsWholeMap ==
    /\ tree = Empty \/ Populated(tree)
    /\ (tree = Empty) <=> (Stored = {})
    /\ (last.op = "pop" /\ last.ret # None /\ before.tag = "Leaf") =>
          tree = Empty

\* the last entry removed
C7_Witness ==
    /\ last.op = "pop" /\ last.ret # None
    /\ before.tag = "Leaf" /\ tree = Empty

\* C8: for every Internal node with critical bit c, all keys stored under it
\* agree on every bit position more significant than c, and every Internal
\* node below it has a critical bit greater than c.
AgreesAbove(n) ==
    /\ \A k1, k2 \in keysOf(n) :
          \A b \in 0 .. (n.crit - 1) : BitIs(k1, b) = BitIs(k2, b)
    /\ \A c \in crits(n.left) \cup crits(n.right) : c > n.crit

C8_BranchesOnlyOnMoreSpecificBits ==
    \A i \in 1 .. Len(internals(tree)) : AgreesAbove(internals(tree)[i])

\* C9: no two Leaf nodes hold the same key, also after swap is called again
\* with a key that is stored.
C9_KeysUnique ==
    \A i, j \in 1 .. Len(leaves(tree)) :
        i # j => leaves(tree)[i][1] # leaves(tree)[j][1]

\* a stored key swapped again, in a tree of several entries
C9_Witness ==
    /\ last.op = "swap" /\ last.ret # None
    /\ len(tree) >= 3

\* C10: clear() leaves the map as a newly constructed one: Empty, len() 0,
\* and find, contains_key and pop find no key.
C10_ClearEmpties ==
    last.op = "clear" =>
        /\ tree = Empty
        /\ len(tree) = 0
        /\ \A k \in Keys :
              /\ find(tree, k) = None
              /\ ~ contains_key(tree, k)
              /\ pop(tree, k).ret = None

\* a tree with Internal nodes cleared
C10_Witness == last.op = "clear" /\ before.tag = "Internal"

-----------------------------------------------------------------------------
\* More of what a tree holds, again without the code's bit test.

\* the largest number of Internal nodes on a path from the root to a leaf
RECURSIVE height(_)
height(t) ==
    IF t.tag = "Internal"
    THEN 1 + (IF height(t.left) >= height(t.right) THEN height(t.left)
              ELSE height(t.right))
    ELSE 0

\* the first position, from the top, at which the keys a # b differ
FirstDiff(a, b) ==
    CHOOSE c \in 0 .. (Width - 1) :
        /\ BitIs(a, c) # BitIs(b, c)
        /\ \A d \in 0 .. (c - 1) : BitIs(a, d) = BitIs(b, d)

\* t with the Leaf that key's bits lead to replaced by an Internal node over
\* that Leaf and Leaf(key, value), the smaller key on the left
RECURSIVE Grafted(_, _, _)
Grafted(t, key, value) ==
    CASE t.tag = "Leaf" ->
            IF t.k < key
            THEN Internal(t, Leaf(key, value), FirstDiff(t.k, key))
            ELSE Internal(Leaf(key, value), t, FirstDiff(t.k, key))
      [] t.tag = "Internal" /\ BitIs(key, t.crit) ->
            [t EXCEPT !.right = Grafted(t.right, key, value)]
      [] t.tag = "Internal" /\ ~ BitIs(key, t.crit) ->
            [t EXCEPT !.left = Grafted(t.left, key, value)]

\* the child of the Internal node n that key's bit at n.crit selects
Chosen(n, key) == IF BitIs(key, n.crit) THEN n.right ELSE n.left
Sibling(n, key) == IF BitIs(key, n.crit) THEN n.left ELSE n.right

\* the Internal tree t with the parent of key's Leaf replaced by that Leaf's
\* sibling, and nothing else changed
RECURSIVE Pruned(_, _)
Pruned(t, key) ==
    IF Chosen(t, key).tag = "Internal" THEN
        IF BitIs(key, t.crit)
        THEN [t EXCEPT !.right = Pruned(t.right, key)]
        ELSE [t EXCEPT !.left = Pruned(t.left, key)]
    ELSE Sibling(t, key)

\* on every path down from t the critical bits are in 0..Width-1, differ
\* from one another and are not in seen
RECURSIVE PathCritsDistinct(_, _)
PathCritsDistinct(t, seen) ==
    t.tag = "Internal" =>
        /\ t.crit \in 0 .. (Width - 1)
        /\ t.crit \notin seen
        /\ PathCritsDistinct(t.left, seen \cup {t.crit})
        /\ PathCritsDistinct(t.right, seen \cup {t.crit})

\* C12: no path from the root to a leaf holds more Internal nodes than the
\* key has bits, and every path ends in a Leaf (or the map is Empty), so the
\* descents of find, find_mut, swap and pop end within Width steps.
C12_DepthBoundedByWidth ==
    /\ height(tree) <= Width
    /\ tree = Empty \/ Populated(tree)

\* a path with as many Internal nodes as the key has bits
C12_Witness == height(tree) = Width /\ last.op = "swap"

\* C15: swap(key, value) with a key that is not stored, ending its descent at
\* Leaf (k, v), replaces exactly that Leaf by an Internal node with critical
\* bit leading_zeros(k ^ key) over the old and the new Leaf, the smaller key
\* on the left; no other node changes.
C15_SplitReplacesOnlyTheLeaf ==
    (last.op = "swap" /\ last.key \notin keysOf(before) /\ before # Empty) =>
        /\ tree = Grafted(before, last.key, last.value)
        /\ last.ret = None

\* a split below an Internal node
C15_Witness ==
    /\ last.op = "swap" /\ last.key \notin keysOf(before)
    /\ before.tag = "Internal"

\* C16: the Leaf nodes read from left to right hold the stored keys in
\* strictly ascending order.
C16_LeavesAscending ==
    \A i, j \in 1 .. Len(leaves(tree)) :
        i < j => leaves(tree)[i][1] < leaves(tree)[j][1]

\* C17: pop(k) deleting a Leaf below the Internal node N puts N's other
\* child, unchanged, in N's place; the Internal nodes above N keep their
\* critical bit and their other child.
C17_CollapseKeepsTheRest ==
    (last.op = "pop" /\ last.key \in keysOf(before)
        /\ before.tag = "Internal") =>
        tree = Pruned(before, last.key)

\* a Leaf deleted two Internal nodes below the root
C17_Witness ==
    /\ last.op = "pop" /\ last.key \in keysOf(before)
    /\ before.tag = "Internal"
    /\ Chosen(before, last.key).tag = "Internal"

\* C19: the critical bits on any one path from the root to a leaf differ
\* from one another and each is in 0..Width-1, never Width.
C19_PathCriticalBitsDistinct == PathCritsDistinct(tree, {})

\* two Internal nodes on one path
C19_Witness ==
    /\ tree.tag = "Internal" /\ last.op = "swap"
    /\ tree.left.tag = "Internal" \/ tree.right.tag = "Internal"

\* C20: after swap(k, v) of a key that was not stored, pop(k) gives back
\* exactly the tree before the swap and returns v.
C20_SwapThenPopRestores ==
    (last.op = "swap" /\ last.key \notin keysOf(before)) =>
        pop(tree, last.key) = [self |-> before, ret |-> Some(last.value)]

\* a new key inserted into a tree with nested Internal nodes
C20_Witness ==
    /\ last.op = "swap" /\ last.key \notin keysOf(before)
    /\ height(before) >= 2

-----------------------------------------------------------------------------
\* The map with the calls of find, contains_key and find_mut recorded in
\* last and before; swap, pop and clear change the map here without being
\* recorded.

SwapUnrecorded(key, value, ub) ==
    /\ tree' = swap(tree, key, value, ub).self
    /\ ref' = [ref EXCEPT ![key] = Some(value)]
    /\ before' = Empty
    /\ last' = [op |-> "new", key |-> 0, value |-> 0, ret |-> None]

PopUnrecorded(key) ==
    /\ tree' = pop(tree, key).self
    /\ ref' = [ref EXCEPT ![key] = None]
    /\ before' = Empty
    /\ last' = [op |-> "new", key |-> 0, value |-> 0, ret |-> None]

ClearUnrecorded ==
    /\ tree' = clear(tree)
    /\ ref' = [k \in Keys |-> None]
    /\ before' = Empty
    /\ last' = [op |-> "new", key |-> 0, value |-> 0, ret |-> None]

\* find takes &self: the tree is read only
Find(key) ==
    /\ last' = [op |-> "find", key |-> key, value |-> 0,
                ret |-> find(tree, key)]
    /\ before' = tree
    /\ UNCHANGED << tree, ref >>

\* contains_key takes &self: the tree is read only
ContainsKey(key) ==
    /\ last' = [op |-> "contains_key", key |-> key, value |-> 0,
                ret |-> Some(contains_key(tree, key))]
    /\ before' = tree
    /\ UNCHANGED << tree, ref >>

\* find_mut, and the caller reading *y and then writing *y = value when it
\* got Some(y), as leaf_find_mut and internal_find_mut do
FindMut(key, value) ==
    /\ LET y == find_mut(tree, key)
       IN  IF y = None THEN
               /\ tree' = tree
               /\ last' = [op |-> "find_mut", key |-> key, value |-> 0,
                           ret |-> None]
           ELSE
               /\ tree' = Store(tree, y[1], value)
               /\ last' = [op |-> "find_mut", key |-> key, value |-> value,
                           ret |-> Some(Deref(tree, y[1]))]
    /\ before' = tree
    /\ ref' = IF ref[key] = None THEN ref
              ELSE [ref EXCEPT ![key] = Some(value)]

\* The values written through the reference, where there is one.
WriteChoices(key) == IF key \in Stored THEN Vals ELSE {0}

CallNext ==
    \/ \E key \in Keys, value \in Vals :
          \E ub \in ShiftOutcomes(key) : SwapUnrecorded(key, value, ub)
    \/ \E key \in Keys : PopUnrecorded(key)
    \/ ClearUnrecorded
    \/ \E key \in Keys : Find(key)
    \/ \E key \in Keys : ContainsKey(key)
    \/ \E key \in Keys : \E value \in WriteChoices(key) : FindMut(key, value)

CallSpec == Init /\ [][CallNext]_vars

\* a tree without its values
RECURSIVE Shape(_)
Shape(t) ==
    CASE t.tag = "Leaf" -> << t.k >>
      [] t.tag = "Internal" -> << Shape(t.left), t.crit, Shape(t.right) >>
      [] OTHER -> << >>

\* C13: find_mut(k) returns a reference exactly when find(k) returns one, and
\* it refers to the value stored under k: a value written through it is
\* what find(k) returns afterwards, while len(), the stored keys, the shape
\* of the tree and the values of the other keys stay as they were.
C13_FindMutRefersToStoredValue ==
    last.op = "find_mut" =>
        /\ (last.ret # None) <=> (find(before, last.key) # None)
        /\ last.ret = find(before, last.key)
        /\ last.ret = None => tree = before
        /\ last.ret # None =>
              /\ find(tree, last.key) = Some(last.value)
              /\ len(tree) = len(before)
              /\ keysOf(tree) = keysOf(before)
              /\ Shape(tree) = Shape(before)
              /\ \A j \in Keys \ {last.key} : find(tree, j) = find(before, j)
        /\ \A k \in Keys : find(tree, k) = ref[k]

\* a new value written through the reference to a Leaf below Internal nodes
C13_Witness ==
    /\ last.op = "find_mut" /\ last.ret # None
    /\ last.ret # Some(last.value)
    /\ before.tag = "Internal"

\* C14: contains_key(k) is true exactly when find(k) returns a value, and
\* neither call changes the tree.
C14_ContainsKeyIffFind ==
    /\ last.op = "contains_key" =>
          /\ last.ret = Some(find(tree, last.key) # None)
          /\ last.ret = Some(last.key \in keysOf(tree))
          /\ tree = before
    /\ last.op = "find" =>
          /\ (last.ret # None) <=> contains_key(tree, last.key)
          /\ tree = before

\* contains_key answering true below an Internal node
C14_Witness ==
    /\ last.op = "contains_key" /\ last.ret = Some(TRUE)
    /\ tree.tag = "Internal"

-----------------------------------------------------------------------------
\* pop step by step, with a reader that is not kept out.  tree is the root
\* slot, the only place a reader starts from.  While a pop is under way, last
\* holds its frames: the node each nested call took out of its slot with
\* std::mem::replace (line 67), the outermost first; the slot of a nested
\* call is the chosen child of the frame before it.  last.seen is what the
\* reader's find returned and in which situation, when the step just taken
\* is a find.

NoRead == [key |-> 0, got |-> None, mid |-> FALSE, stored |-> FALSE]

InPop == last.op \in {"pop down", "pop up"}

\* the child the first match of pop chooses (lines 69-72), read and written
ChosenChild(val, key) ==
    IF bit_at(key, val.crit) THEN val.right ELSE val.left

SetChosenChild(val, key, node) ==
    IF bit_at(key, val.crit) THEN [val EXCEPT !.right = node]
    ELSE [val EXCEPT !.left = node]

\* the first match (lines 68-74): a recursive call follows for Internal
AfterTake(val) == IF val.tag = "Internal" THEN "pop down" ELSE "pop up"

StepInit ==
    /\ tree = Empty
    /\ before = Empty
    /\ ref = [k \in Keys |-> None]
    /\ last = [op |-> "new", key |-> 0, value |-> 0, ret |-> None,
               frames |-> << >>, seen |-> NoRead]

\* swap as a whole, by the one caller there is
StepSwap(key, value, ub) ==
    /\ ~ InPop
    /\ tree' = swap(tree, key, value, ub).self
    /\ ref' = [ref EXCEPT ![key] = Some(value)]
    /\ before' = Empty
    /\ last' = [op |-> "new", key |-> 0, value |-> 0, ret |-> None,
                frames |-> << >>, seen |-> NoRead]

\* the call of pop on the root: line 67 and the first match
PopCall(key) ==
    /\ ~ InPop
    /\ tree' = Empty
    /\ before' = tree
    /\ last' = [op |-> AfterTake(tree), key |-> key, value |-> 0,
                ret |-> None, frames |-> << tree >>, seen |-> NoRead]
    /\ ref' = ref

\* the nested call of line 70 or 72: its line 67 and its first match
PopRecurse ==
    /\ last.op = "pop down"
    /\ LET n == Len(last.frames)
           val == last.frames[n]
           child == ChosenChild(val, last.key)
       IN  last' = [last EXCEPT
                      !.op = AfterTake(child),
                      !.seen = NoRead,
                      !.frames = Append(
                          [last.frames EXCEPT
                              ![n] = SetChosenChild(val, last.key, Empty)],
                          child)]
    /\ UNCHANGED << tree, before, ref >>

\* the second match of the innermost call (lines 76-97) and its return
PopReturn ==
    /\ last.op = "pop up"
    /\ LET n == Len(last.frames)
           val == last.frames[n]
           r == IF val.tag = "Leaf" THEN pop_leaf(val.k, val.v, last.key)
                ELSE pop_restore(val, last.ret)
       IN  IF n = 1 THEN
               /\ tree' = r.self
               /\ last' = [last EXCEPT !.op = "pop", !.ret = r.ret,
                                       !.seen = NoRead, !.frames = << >>]
               /\ ref' = [ref EXCEPT ![last.key] = None]
           ELSE
               /\ tree' = tree
               /\ last' = [last EXCEPT
                              !.ret = r.ret,
                              !.seen = NoRead,
                              !.frames = Append(
                                  SubSeq(last.frames, 1, n - 2),
                                  SetChosenChild(last.frames[n - 1],
                                                 last.key, r.self))]
               /\ ref' = ref
    /\ before' = before

\* a find by a reader, at any moment; stored says that key is in the map
\* before the pop under way and after it
Read(key) ==
    /\ last' = [last EXCEPT !.seen =
                  [key |-> key, got |-> find(tree, key), mid |-> InPop,
                   stored |-> ref[key] # None
                                /\ ~ (InPop /\ key = last.key)]]
    /\ UNCHANGED << tree, before, ref >>

StepNext ==
    \/ \E key \in Keys, value \in Vals :
          \E ub \in ShiftOutcomes(key) : StepSwap(key, value, ub)
    \/ \E key \in Keys : PopCall(key)
    \/ PopRecurse
    \/ PopReturn
    \/ \E key \in Keys : Read(key)

StepSpec == StepInit /\ [][StepNext]_vars

\* C18: a find that runs between the steps of a pop can report as absent a
\* key that is stored before and after that pop (the witness is such a
\* find); a find that runs while no pop is under way never does, and the pop
\* taken step by step ends with the tree and the result of the call.
C18_LostKeySeenOnlyDuringPop ==
    /\ (last.seen.stored /\ last.seen.got = None) => last.seen.mid
    /\ last.op = "pop" =>
          [self |-> tree, ret |-> last.ret] = pop(before, last.key)

\* a nested call of a pop that removes a key has taken its node out; the
\* reader is told that another key is absent, which the tree held when the
\* pop was called and holds when it has returned
C18_Witness ==
    /\ last.op = "pop up" /\ Len(last.frames) >= 2
    /\ find(before, last.key) # None
    /\ last.seen.mid /\ last.seen.stored /\ last.seen.got = None
    /\ find(before, last.seen.key) # None
    /\ find(pop(before, last.key).self, last.seen.key) # None

-----------------------------------------------------------------------------
\* bit_at as a function of its own: one call, with any value and position of
\* the types of 1 to TestBits bits (u8, the type of the tests, is the last).

TestBits == 8

BitInit ==
    /\ tree = Empty
    /\ before = Empty
    /\ ref = [k \in Keys |-> None]
    /\ \E w \in 1 .. TestBits :
          \E value \in 0 .. ((2 ^ w) - 1), pos \in 0 .. (w - 1) :
              last = [op |-> "call bit_at", width |-> w, value |-> value,
                      pos |-> pos, ret |-> FALSE]

BitAt ==
    /\ last.op = "call bit_at"
    /\ last' = [last EXCEPT !.op = "bit_at",
                            !.ret = bit_at_T(last.width, last.value, last.pos)]
    /\ UNCHANGED << tree, before, ref >>

BitNext == BitAt

BitSpec == BitInit /\ [][BitNext]_vars

\* C11: for every value of the width w and every position pos in 0..w-1,
\* bit_at(value, pos) is true exactly when the bit of value at position pos,
\* counted from the most significant bit as position 0, is 1; on u8,
\* bit_at(1,0) = false, bit_at(128,0) = true, bit_at(1,7) = true and
\* bit_at(128,7) = false.
C11_BitAtReadsFromMostSignificant ==
    /\ last.op = "bit_at" =>
          (last.ret <=>
              ((last.value \div (2 ^ ((last.width - 1) - last.pos))) % 2) = 1)
    /\ (last.op = "bit_at" /\ last.width = 8) =>
          /\ (last.value = 1 /\ last.pos = 0) => last.ret = FALSE
          /\ (last.value = 128 /\ last.pos = 0) => last.ret = TRUE
          /\ (last.value = 1 /\ last.pos = 7) => last.ret = TRUE
          /\ (last.value = 128 /\ last.pos = 7) => last.ret = FALSE

\* the call bit_at( &1u8, &7u8 ) of verify_bit_at
C11_Witness ==
    /\ last.op = "bit_at" /\ last.width = 8
    /\ last.value = 1 /\ last.pos = 7 /\ last.ret = TRUE

====
